---------------------------- MODULE Spec2Model ----------------------------
(***************************************************************************)
(* NeoPayphone (NeoPhone5.ino): the call state machine of the telephone    *)
(* prop, its Track Directory (scanAudioFXStorageNew, convertFilenameToInt, *)
(* findTrackNumberByFilename) and its key-fob readers.                     *)
(*                                                                         *)
(* A filename is a sequence of one-character strings.  Time is counted in  *)
(* milliseconds.  `gap' is the time the program has provably let pass      *)
(* since its last command to the sound module: every delay(d) adds d, the  *)
(* code between two delays adds nothing.                                   *)
(***************************************************************************)
EXTENDS Integers, Sequences, FiniteSets, TLC

VARIABLES
    \* ---- program state (NeoPhone5.ino globals and statics)
    currentState,      \* PhoneState currentState
    trackNum,          \* loop(): static uint8_t trackNum
    audioFiles,        \* AudioFile audioFiles[MAX_TRACKS], first totalFiles entries
    pc,                \* position of the program inside setup()/loop()
    \* ---- locals that live across a blocking wait
    phoneNumber,       \* GetKeyPadNumber: char phoneNumber[6]
    KeyPadCount,       \* GetKeyPadNumber: uint8_t KeyPadCount
    firstKeyPressed,   \* GetKeyPadNumber: bool firstKeyPressed
    tempIndex,         \* GetKeyPadNumber: uint8_t tempIndex
    pendingKey,        \* GetKeyPadNumber: char key, the last key read that was not NO_KEY
    index,             \* dialingPhone / processIncomingCall: index
    firstButtonIndex,  \* ProcessIncomingKeyFob: firstButtonIndex
    chkLast,           \* CheckForIncomingCall: static lastButtonPressed
    chkDb,             \* CheckForIncomingCall: millis() - lastDebounceTime (saturating)
    chkStable,         \* CheckForIncomingCall: static buttonStable
    fobLast,           \* ProcessIncomingKeyFob: lastButtonPressed
    fobDb,             \* ProcessIncomingKeyFob: millis() - lastDebounceTime (saturating)
    \* ---- inputs
    hookOff,           \* digitalRead(ReceiverHook) == LOW
    playing,           \* digitalRead(SFX_ACT) == LOW
    btn,               \* the key-fob buttons whose pin reads LOW
    windowExpired,     \* millis() - startTime >= 5000 in ProcessIncomingKeyFob
    ringExpired,       \* millis() - ringStartTime >= ringTimeout in processIncomingCall
    \* ---- the command channel to the sound module
    gap,               \* ms of delay() since the last command (saturating at sfxDelay)
    cmd,               \* the last command sent: [op, track]
    cmdSpaced,         \* the last command was sent with gap >= sfxDelay
    prevOp,            \* the command sent before the last one
    cmdSeq,            \* parity of the commands sent since the last sfx.reset()
    \* ---- observations
    lastLookup,        \* the last trackID passed to findTrackNumberByFilename
    hungUp,            \* a live call has sampled the hook on-hook
    scanFailed,        \* scanAudioFXStorageNew found zero files at boot
    playFailed,        \* sfx.playTrack returned false for the recording of this call
    lowFor,            \* ms since the pin of button lastButtonPressed went LOW, or since
                       \* the call that stored it if later (saturating), 0 if HIGH
    solo,              \* the button CheckForIncomingCall has read LOW alone since it
                       \* went LOW, -1 if none
    seenFor,           \* ms since CheckForIncomingCall first read solo LOW (saturating)
    polledStable,      \* a call read solo LOW more than debounceDelay ms after the first
    \* ---- the screensaver
    screensaverActive, \* bool screensaverActive
    idleExpired,       \* millis() - lastActivityTime > screensaverTimeout
    idleFresh,         \* lastActivityTime was set less than screensaverTimeout ago:
                       \* only bounded delays have run since
    \* ---- inputs of the directory specifications
    listing,           \* the sound module's file listing, sfx.fileName(0..files-1)
    fname,             \* a filename handed to convertFilenameToInt
    result,            \* what the last pure call returned
    queried            \* the id of the last lookup in SpecScan

progVars == <<currentState, trackNum, audioFiles, pc>>
kpVars == <<phoneNumber, KeyPadCount, firstKeyPressed, tempIndex, pendingKey>>
chkVars == <<chkLast, chkDb, chkStable>>
fobVars == <<firstButtonIndex, fobLast, fobDb>>
localVars == <<kpVars, index, chkVars, fobVars>>
inputVars == <<hookOff, playing, btn, windowExpired, ringExpired>>
chanVars == <<gap, cmd, cmdSpaced, prevOp, cmdSeq>>
obsVars == <<lastLookup, hungUp, scanFailed>>
pureVars == <<listing, fname, result, queried>>
ssVars == <<screensaverActive, idleExpired, idleFresh>>
fobObs == <<lowFor, solo, seenFor, polledStable>>
vars == <<progVars, localVars, inputVars, chanVars, obsVars, pureVars, ssVars,
          fobObs, playFailed>>

Min(a, b) == IF a < b THEN a ELSE b
Max(a, b) == IF a > b THEN a ELSE b

---------------------------------------------------------------------------
(* Program constants *)

MAX_TRACKS == 30
dialTone == 1
buttonPress == 2
ringingTone == 3
callFinished == 4
RingDelay == 1000
sfxDelay == 400
messageWait == 1000
debounceDelay == 2
numButtons == 4
SecondPressWindow == 5000
NotFound == 255
Invalid == -1
MaxDigits == 5
MaxId == 99999
BacklightSteps == 11
BacklightStepDelay == 50

\* keyfobButtons[i].number, i = 0..numButtons-1
keyfobNumber(i) == i + 1

---------------------------------------------------------------------------
(* Bounds of the model *)

MaxNameLen == 6
MaxFiles == 40

---------------------------------------------------------------------------
(* convertFilenameToInt *)

DigitChars == <<"0", "1", "2", "3", "4", "5", "6", "7", "8", "9">>
isdigit(c) == \E i \in 1..10 : DigitChars[i] = c
DigitVal(c) == (CHOOSE i \in 1..10 : DigitChars[i] = c) - 1

\* Step 1: the index of the first digit at or after i, Len+1 when there is none
RECURSIVE SkipNonDigits(_, _)
SkipNonDigits(filename, i) ==
    IF i <= Len(filename) /\ ~isdigit(filename[i])
    THEN SkipNonDigits(filename, i + 1)
    ELSE i

\* Step 2: numStr, the digits copied from index i on
RECURSIVE ExtractDigits(_, _, _)
ExtractDigits(filename, i, numStr) ==
    IF i <= Len(filename) /\ filename[i] # "." /\ Len(numStr) < MaxDigits
    THEN IF ~isdigit(filename[i])
         THEN numStr
         ELSE ExtractDigits(filename, i + 1, Append(numStr, filename[i]))
    ELSE numStr

\* strtol(numStr, &endPtr, 10): the value of the leading digits and the rest
RECURSIVE strtol(_, _)
strtol(s, acc) ==
    IF s # <<>> /\ isdigit(Head(s))
    THEN strtol(Tail(s), acc * 10 + DigitVal(Head(s)))
    ELSE [num |-> acc, endPtr |-> s]

convertFilenameToInt_TakeAll(filename) ==
    LET numStr == SelectSeq(filename, isdigit)
        conv == strtol(numStr, 0)
    IN  IF Len(numStr) = 0 THEN Invalid ELSE conv.num

convertFilenameToInt(filename) ==
    LET numStr == ExtractDigits(filename, SkipNonDigits(filename, 1), <<>>)
        conv == strtol(numStr, 0)
    IN  IF Len(numStr) = 0 THEN Invalid
        ELSE IF conv.endPtr # <<>> \/ conv.num < 0 \/ conv.num > MaxId THEN Invalid
        ELSE conv.num

---------------------------------------------------------------------------
(* scanAudioFXStorageNew and findTrackNumberByFilename *)

\* the for loop of scanAudioFXStorageNew from file f (0-based) on
RECURSIVE ScanFrom(_, _, _)
ScanFrom(files, f, acc) ==
    IF f >= Len(files) \/ Len(acc) >= MAX_TRACKS THEN acc
    ELSE LET trackID == convertFilenameToInt(files[f + 1])
         IN  IF trackID = Invalid
             THEN ScanFrom(files, f + 1, acc)
             ELSE ScanFrom(files, f + 1,
                           Append(acc, [fileID |-> trackID, trackNum |-> f]))

RECURSIVE ScanFrom_NoCap(_, _, _)
ScanFrom_NoCap(files, f, acc) ==
    IF f >= Len(files) THEN acc
    ELSE LET trackID == convertFilenameToInt(files[f + 1])
         IN  IF trackID = Invalid
             THEN ScanFrom_NoCap(files, f + 1, acc)
             ELSE ScanFrom_NoCap(files, f + 1,
                                 Append(acc, [fileID |-> trackID, trackNum |-> f]))

\* the table after scanAudioFXStorageNew; with zero files the table is left as it was
scanAudioFXStorageNew_NoCap(files, old) ==
    IF Len(files) = 0 THEN old ELSE ScanFrom_NoCap(files, 0, <<>>)

scanAudioFXStorageNew(files, old) ==
    IF Len(files) = 0 THEN old ELSE ScanFrom(files, 0, <<>>)

\* the for loop of findTrackNumberByFilename from entry i (0-based) on: the
\* trackNum of the first entry whose fileID is trackID, 255 when there is none
RECURSIVE FindFrom(_, _, _)
FindFrom(table, i, trackID) ==
    IF i >= Len(table) THEN NotFound
    ELSE IF table[i + 1].fileID = trackID THEN table[i + 1].trackNum
    ELSE FindFrom(table, i + 1, trackID)

\* the same loop keeping the last match instead of returning at the first
RECURSIVE FindLastFrom(_, _, _, _)
FindLastFrom(table, i, trackID, best) ==
    IF i >= Len(table) THEN best
    ELSE FindLastFrom(table, i + 1, trackID,
                      IF table[i + 1].fileID = trackID
                      THEN table[i + 1].trackNum ELSE best)

findTrackNumberByFilename_Last(table, trackID) ==
    FindLastFrom(table, 0, trackID, NotFound)

findTrackNumberByFilename(table, trackID) == FindFrom(table, 0, trackID)

---------------------------------------------------------------------------
(* Initial values of the state machine's variables *)

DbCap == debounceDelay + 1
Blank == <<" ", " ", " ", " ", " ">>
NoCmd == [op |-> "none", track |-> NotFound]

MachineInit ==
    /\ currentState = "IDLE"
    /\ trackNum = NotFound
    /\ audioFiles = <<>>
    /\ phoneNumber = Blank /\ KeyPadCount = 0 /\ firstKeyPressed = FALSE
    /\ tempIndex = NotFound /\ pendingKey = "" /\ index = NotFound
    /\ firstButtonIndex = 0
    /\ chkLast = -1 /\ chkDb = DbCap /\ chkStable = FALSE
    /\ fobLast = NotFound /\ fobDb = DbCap
    /\ playing = FALSE /\ btn = {}
    /\ windowExpired = FALSE /\ ringExpired = FALSE
    /\ gap = sfxDelay /\ cmd = NoCmd /\ cmdSpaced = TRUE
    /\ prevOp = "none" /\ cmdSeq = 0
    /\ lastLookup = Invalid /\ hungUp = FALSE /\ scanFailed = FALSE
    /\ playFailed = FALSE
    /\ screensaverActive = FALSE /\ idleExpired = FALSE /\ idleFresh = TRUE
    /\ lowFor = 0
    /\ solo = -1 /\ seenFor = 0 /\ polledStable = FALSE

---------------------------------------------------------------------------
(* The command channel: sfx.playTrack / sfx.stop / sfx.reset and delay()   *)

\* delay(pre); <command op on track trk>; delay(post)
Send(op, trk, pre, post) ==
    /\ cmd' = [op |-> op, track |-> trk]
    /\ cmdSpaced' = (gap + pre >= sfxDelay)
    /\ prevOp' = cmd.op
    /\ cmdSeq' = IF op = "reset" THEN 0 ELSE 1 - cmdSeq
    /\ gap' = Min(post, sfxDelay)

\* delay(d) with no command
Pause(d) ==
    /\ gap' = Min(gap + d, sfxDelay)
    /\ UNCHANGED <<cmd, cmdSpaced, prevOp, cmdSeq>>

\* activateScreensaver: the backlight is dimmed in steps of delay(50)
DimPause == BacklightSteps * BacklightStepDelay

\* the head of loop(), before the switch: runScreensaver, which ends the
\* screensaver when its animation step is due and the hook is off or a key is
\* down, then activateScreensaver when the idle timer has expired.  The outcomes:
\* the values of screensaverActive and of the timer, and the delay spent
LoopHead ==
    LET ran == IF screensaverActive
               THEN {[active |-> TRUE, expired |-> idleExpired, fresh |-> idleFresh],
                     [active |-> FALSE, expired |-> FALSE, fresh |-> TRUE]}
               ELSE {[active |-> FALSE, expired |-> idleExpired, fresh |-> idleFresh]}
    IN  {[active |-> r.active \/ r.expired, expired |-> r.expired, fresh |-> r.fresh,
          pause |-> IF ~r.active /\ r.expired THEN DimPause ELSE 0] : r \in ran}
\* a case of loop() that leaves the screensaver and the idle timer as the head did
HeadOnly(h) ==
    screensaverActive' = h.active /\ idleExpired' = h.expired /\ idleFresh' = h.fresh
\* a case of loop() that goes on into a wait without a bound
HeadThenWait(h) ==
    screensaverActive' = h.active /\ idleExpired' = h.expired /\ idleFresh' = FALSE

\* the locals of GetKeyPadNumber / ProcessIncomingKeyFob end with the call
KpReturn ==
    /\ phoneNumber' = Blank /\ KeyPadCount' = 0 /\ firstKeyPressed' = FALSE
    /\ tempIndex' = NotFound /\ pendingKey' = ""
FobReturn == firstButtonIndex' = 0 /\ fobLast' = NotFound /\ fobDb' = DbCap

\* findTrackNumberByFilename on the table of this boot
Find(trackID) == findTrackNumberByFilename(audioFiles, trackID)
\* its delay(messageWait) on the not-found path
FindDelay(trackID) == IF Find(trackID) = NotFound THEN messageWait ELSE 0
\* its currentState = STATE_RESET on the not-found path
FindState(trackID, st) == IF Find(trackID) = NotFound THEN "RESET" ELSE st

---------------------------------------------------------------------------
(* The key-fob readers *)

\* CheckForIncomingCall: the for loop from button i on. st = [last, db, stable]
\* are the statics, low the buttons whose pin reads LOW; ret is the value returned
RECURSIVE CheckFrom(_, _, _)
CheckFrom(i, st, low) ==
    IF i >= numButtons THEN [last |-> st.last, db |-> st.db, stable |-> st.stable, ret |-> -1]
    ELSE IF i \in low
         THEN LET st1 == IF st.last # i
                         THEN [last |-> i, db |-> 0, stable |-> FALSE]
                         ELSE st
              IN  IF st1.db > debounceDelay /\ ~st1.stable
                  THEN [last |-> st1.last, db |-> st1.db, stable |-> TRUE, ret |-> i]
                  ELSE CheckFrom(i + 1, st1, low)
         ELSE IF st.last = i
              THEN CheckFrom(i + 1, [last |-> -1, db |-> st.db, stable |-> FALSE], low)
              ELSE CheckFrom(i + 1, st, low)

CheckForIncomingCall(low) ==
    CheckFrom(0, [last |-> chkLast, db |-> chkDb, stable |-> chkStable], low)

\* ProcessIncomingKeyFob: one pass of the for loop inside the 5-second window,
\* from button i on. det is detectedIndex
RECURSIVE FobFrom(_, _, _)
FobFrom(i, st, low) ==
    IF i >= numButtons THEN [last |-> st.last, db |-> st.db, det |-> NotFound]
    ELSE IF i \in low
         THEN LET st1 == IF st.last # i THEN [last |-> i, db |-> 0] ELSE st
              IN  IF st1.db > debounceDelay
                  THEN [last |-> st1.last, db |-> st1.db, det |-> i]
                  ELSE FobFrom(i + 1, st1, low)
         ELSE IF st.last = i
              THEN FobFrom(i + 1, [last |-> NotFound, db |-> st.db], low)
              ELSE FobFrom(i + 1, st, low)

\* the two digits combined in the wrong order
finalSequence_Swapped(first, second) == keyfobNumber(second) * 10 + keyfobNumber(first)

\* int finalSequence = (firstDigit * 10) + secondDigit
finalSequence(first, second) == keyfobNumber(first) * 10 + keyfobNumber(second)

---------------------------------------------------------------------------
(* Spec: the state machine, booted on one of BootListings *)

N_1WAV == <<"1", ".", "W", "A", "V">>
N_3OGG == <<"3", ".", "O", "G", "G">>
N_11OGG == <<"1", "1", ".", "O", "G", "G">>
N_12345OGG == <<"1", "2", "3", "4", "5", ".", "O", "G", "G">>
N_XOGG == <<"X", ".", "O", "G", "G">>
N_03WAV == <<"0", "3", ".", "W", "A", "V">>
N_T11OGG == <<"T", "1", "1", ".", "O", "G", "G">>
N_2WAV == <<"2", ".", "W", "A", "V">>
N_4OGG == <<"4", ".", "O", "G", "G">>
N_42OGG == <<"4", "2", ".", "O", "G", "G">>
N_11111OGG == <<"1", "1", "1", "1", "1", ".", "O", "G", "G">>
FullListing == <<N_1WAV, N_2WAV, N_3OGG, N_4OGG, N_11OGG, N_42OGG, N_11111OGG>>
BareListing == <<N_11OGG, N_11111OGG>>
BootListings == {<<>>, FullListing, BareListing}

NO_KEY == "none"
KeypadKeys == {"1", "2", "#", "*"}
Buttons == 0..(numButtons - 1)

\* the pins are left unread (a call begins): nothing is observed of them
FobObsReset ==
    /\ lowFor' = 0
    /\ solo' = -1 /\ seenFor' = 0 /\ polledStable' = FALSE
\* one call of CheckForIncomingCall that returned ret with the pins in low LOW:
\* the for loop read the buttons up to the one it returned
FobObsRead(low, ret) ==
    LET seen == IF ret = -1 THEN low ELSE {b \in low : b <= ret}
    IN  IF solo # -1 /\ seen = {solo}
        THEN /\ polledStable' = (polledStable \/ seenFor > debounceDelay)
             /\ UNCHANGED <<solo, seenFor>>
        ELSE /\ solo' = IF Cardinality(seen) = 1 THEN CHOOSE b \in seen : TRUE ELSE -1
             /\ seenFor' = 0 /\ polledStable' = FALSE
\* a shortcut that fills in another number
ShortcutNumber_Wrong == <<"1", "1", "1", "1", "2">>
\* strcpy(phoneNumber, "11111")
ShortcutNumber == <<"1", "1", "1", "1", "1">>

Init ==
    /\ MachineInit
    /\ hookOff \in BOOLEAN
    /\ pc = "setup"
    /\ listing \in BootListings
    /\ fname = <<>> /\ result = 0 /\ queried = 0

\* setup(): sfx.reset() (halt when it fails), then scanAudioFXStorageNew()
Setup ==
    /\ pc = "setup"
    /\ \E ok \in BOOLEAN :
          IF ok
          THEN /\ audioFiles' = scanAudioFXStorageNew(listing, audioFiles)
               /\ scanFailed' = (Len(listing) = 0)
               /\ currentState' = IF Len(listing) = 0 THEN "RESET" ELSE currentState
               /\ pc' = "loop"
          ELSE /\ pc' = "halt"
               /\ UNCHANGED <<audioFiles, scanFailed, currentState>>
    /\ Send("reset", NotFound, messageWait, messageWait)
    /\ UNCHANGED <<trackNum, localVars, inputVars, lastLookup, hungUp, pureVars, ssVars, fobObs,
                   playFailed>>

\* loop(), case STATE_IDLE
IdlePoll ==
    /\ pc = "loop" /\ currentState = "IDLE"
    /\ \E h \in LoopHead :
          IF hookOff
          THEN /\ currentState' = "DIAL_TONE"
               /\ screensaverActive' = FALSE
               /\ idleExpired' = IF h.active THEN FALSE ELSE h.expired
               /\ idleFresh' = (h.active \/ h.fresh)
               /\ Pause(h.pause + IF h.active THEN messageWait ELSE 0)
               /\ btn' = {}
               /\ FobObsReset
               /\ UNCHANGED <<pc, chkVars, firstButtonIndex>>
          ELSE LET r == CheckForIncomingCall(btn)
               IN  /\ chkLast' = r.last /\ chkDb' = r.db /\ chkStable' = r.stable
                   /\ FobObsRead(btn, r.ret)
                   /\ lowFor' = IF r.last = chkLast THEN lowFor ELSE 0
                   /\ IF r.ret # -1
                      THEN pc' = "fob_release" /\ firstButtonIndex' = r.ret
                      ELSE UNCHANGED <<pc, firstButtonIndex>>
                   /\ HeadThenWait(h)
                   /\ Pause(h.pause)
                   /\ UNCHANGED <<currentState, btn>>
    /\ UNCHANGED <<trackNum, audioFiles, kpVars, index, fobLast, fobDb, hookOff, playing,
                   windowExpired, ringExpired, obsVars, pureVars, playFailed>>

\* ProcessIncomingKeyFob: while (digitalRead(first pin) == LOW) delay(5), which
\* ends when the first button reads released; the time spent in it is not added
\* to gap (gap stays a lower bound)
FobRelease ==
    /\ pc = "fob_release"
    /\ firstButtonIndex \notin btn
    /\ pc' = "fob_window"
    /\ fobLast' = NotFound /\ fobDb' = DbCap
    /\ windowExpired' = FALSE
    /\ UNCHANGED <<currentState, trackNum, audioFiles, kpVars, index, chkVars,
                   firstButtonIndex, hookOff, playing, btn, ringExpired, chanVars,
                   obsVars, pureVars, ssVars, fobObs, playFailed>>

\* the second-press step going to the incoming call whatever the lookup returned
FobPoll_AlwaysIncoming ==
    /\ pc = "fob_window"
    /\ IF windowExpired
       THEN /\ trackNum' = NotFound
            /\ pc' = "loop"
            /\ chkDb' = DbCap
            /\ FobReturn
            /\ Pause(SecondPressWindow)
            /\ UNCHANGED <<currentState, btn, lastLookup, ssVars, fobObs>>
       ELSE LET r == FobFrom(0, [last |-> fobLast, db |-> fobDb], btn)
                id == finalSequence(firstButtonIndex, r.det)
            IN  IF r.det = NotFound
                THEN /\ fobLast' = r.last /\ fobDb' = r.db
                     /\ UNCHANGED <<currentState, trackNum, pc, chkDb, firstButtonIndex,
                                    btn, chanVars, lastLookup, ssVars, fobObs>>
                ELSE /\ lastLookup' = id
                     /\ trackNum' = Find(id)
                     /\ currentState' = "INCOMING_CALL"
                     /\ Pause(messageWait + FindDelay(id))
                     /\ screensaverActive' = (screensaverActive /\ Find(id) = NotFound)
                     /\ idleExpired' = (idleExpired /\ Find(id) = NotFound)
                     /\ idleFresh' = (idleFresh \/ Find(id) # NotFound)
                     /\ chkDb' = DbCap
                     /\ FobReturn
                     /\ btn' = {}
                     /\ FobObsReset
                     /\ pc' = "loop"
    /\ UNCHANGED <<audioFiles, kpVars, index, chkLast, chkStable, hookOff, playing,
                   windowExpired, ringExpired, hungUp, scanFailed, pureVars, playFailed>>
\* ProcessIncomingKeyFob: one iteration of the window loop, and what follows it
\* in ProcessIncomingKeyFob and in case STATE_IDLE of loop()
FobPoll ==
    /\ pc = "fob_window"
    /\ IF windowExpired
       THEN /\ trackNum' = NotFound
            /\ pc' = "loop"
            /\ chkDb' = DbCap
            /\ FobReturn
            /\ Pause(SecondPressWindow)
            /\ UNCHANGED <<currentState, btn, lastLookup, ssVars, fobObs>>
       ELSE LET r == FobFrom(0, [last |-> fobLast, db |-> fobDb], btn)
                id == finalSequence(firstButtonIndex, r.det)
            IN  IF r.det = NotFound
                THEN /\ fobLast' = r.last /\ fobDb' = r.db
                     /\ UNCHANGED <<currentState, trackNum, pc, chkDb, firstButtonIndex,
                                    btn, chanVars, lastLookup, ssVars, fobObs>>
                ELSE /\ lastLookup' = id
                     /\ trackNum' = Find(id)
                     /\ currentState' = IF Find(id) < NotFound
                                        THEN "INCOMING_CALL" ELSE "RESET"
                     /\ Pause(messageWait + FindDelay(id))
                     /\ screensaverActive' = (screensaverActive /\ Find(id) = NotFound)
                     /\ idleExpired' = (idleExpired /\ Find(id) = NotFound)
                     /\ idleFresh' = (idleFresh \/ Find(id) # NotFound)
                     /\ chkDb' = DbCap
                     /\ FobReturn
                     /\ btn' = {}
                     /\ FobObsReset
                     /\ pc' = "loop"
    /\ UNCHANGED <<audioFiles, kpVars, index, chkLast, chkStable, hookOff, playing,
                   windowExpired, ringExpired, hungUp, scanFailed, pureVars, playFailed>>

\* the dial-tone case with the phase that findTrackNumberByFilename left
DialTone_KeepsReset ==
    /\ pc = "loop" /\ currentState = "DIAL_TONE"
    /\ lastLookup' = dialTone
    /\ \E h \in LoopHead :
          /\ HeadOnly(h)
          /\ Send("play", Find(dialTone), h.pause + FindDelay(dialTone), sfxDelay)
    /\ currentState' = FindState(dialTone, "KEYPAD_ENTRY")
    /\ chkDb' = DbCap
    /\ UNCHANGED <<trackNum, audioFiles, pc, kpVars, index, chkLast, chkStable, fobVars,
                   inputVars, hungUp, scanFailed, pureVars, fobObs, playFailed>>
\* loop(), case STATE_DIAL_TONE
DialTone ==
    /\ pc = "loop" /\ currentState = "DIAL_TONE"
    /\ lastLookup' = dialTone
    /\ \E h \in LoopHead :
          /\ HeadOnly(h)
          /\ Send("play", Find(dialTone), h.pause + FindDelay(dialTone), sfxDelay)
    /\ currentState' = "KEYPAD_ENTRY"
    /\ chkDb' = DbCap
    /\ UNCHANGED <<trackNum, audioFiles, pc, kpVars, index, chkLast, chkStable, fobVars,
                   inputVars, hungUp, scanFailed, pureVars, fobObs, playFailed>>

\* GetKeyPadNumber up to its while loop
KeypadBegin ==
    /\ pc = "loop" /\ currentState = "KEYPAD_ENTRY"
    /\ phoneNumber' = Blank /\ KeyPadCount' = 0 /\ firstKeyPressed' = FALSE
    /\ pendingKey' = ""
    /\ lastLookup' = buttonPress
    /\ tempIndex' = Find(buttonPress)
    /\ currentState' = FindState(buttonPress, currentState)
    /\ \E h \in LoopHead :
          /\ HeadThenWait(h)
          /\ Pause(h.pause + FindDelay(buttonPress))
    /\ pc' = "kp_loop"
    /\ UNCHANGED <<trackNum, audioFiles, index, chkVars, fobVars, inputVars, hungUp,
                   scanFailed, pureVars, fobObs, playFailed>>

isKeyDigit(key) == isdigit(key)

\* the key handling with '#' clearing the buffer but leaving the count as it is
HandleKey_KeepsCount(key) ==
    LET count == IF isKeyDigit(key) THEN KeyPadCount + 1
                 ELSE IF key = "#" THEN KeyPadCount
                 ELSE MaxDigits
        after == IF count >= MaxDigits THEN sfxDelay ELSE 0
    IN  /\ KeyPadCount' = count
        /\ phoneNumber' = IF isKeyDigit(key)
                          THEN [phoneNumber EXCEPT ![KeyPadCount + 1] = key]
                          ELSE IF key = "#" THEN Blank
                          ELSE ShortcutNumber
        /\ IF isKeyDigit(key) THEN Send("play", tempIndex, 0, after) ELSE Pause(after)
        /\ pendingKey' = key
        /\ pc' = IF count >= MaxDigits THEN "kp_done" ELSE "kp_loop"

\* GetKeyPadNumber: the handling of one key after the first-key stop; the pause
\* of line 455 follows the key that completes the number
HandleKey(key) ==
    LET count == IF isKeyDigit(key) THEN KeyPadCount + 1
                 ELSE IF key = "#" THEN 0
                 ELSE MaxDigits
        after == IF count >= MaxDigits THEN sfxDelay ELSE 0
    IN  /\ KeyPadCount' = count
        /\ phoneNumber' = IF isKeyDigit(key)
                          THEN [phoneNumber EXCEPT ![KeyPadCount + 1] = key]
                          ELSE IF key = "#" THEN Blank
                          ELSE ShortcutNumber
        /\ IF isKeyDigit(key) THEN Send("play", tempIndex, 0, after) ELSE Pause(after)
        /\ pendingKey' = key
        /\ pc' = IF count >= MaxDigits THEN "kp_done" ELSE "kp_loop"

\* the polling step returning tempIndex instead of 255 on hang-up
KeypadPoll_ReturnsIndex ==
    /\ pc = "kp_loop"
    /\ IF ~hookOff
       THEN /\ currentState' = IF tempIndex = NotFound THEN "RESET" ELSE "CONNECTING"
            /\ trackNum' = tempIndex
            /\ pc' = "loop"
            /\ KpReturn
            /\ UNCHANGED chanVars
       ELSE /\ UNCHANGED <<currentState, trackNum>>
            /\ \E key \in KeypadKeys \cup {NO_KEY} :
                  IF key = NO_KEY
                  THEN UNCHANGED <<pc, kpVars, chanVars>>
                  ELSE IF ~firstKeyPressed
                  THEN /\ firstKeyPressed' = TRUE
                       /\ Send("stop", NotFound, 0, 0)
                       /\ pendingKey' = key
                       /\ pc' = "kp_key"
                       /\ UNCHANGED <<phoneNumber, KeyPadCount, tempIndex>>
                  ELSE /\ HandleKey(key)
                       /\ UNCHANGED <<firstKeyPressed, tempIndex>>
    /\ UNCHANGED <<audioFiles, index, chkVars, fobVars, inputVars, obsVars, pureVars, ssVars, fobObs,
                   playFailed>>

\* GetKeyPadNumber: one iteration of while (KeyPadCount < 5)
KeypadPoll ==
    /\ pc = "kp_loop"
    /\ IF ~hookOff
       THEN /\ currentState' = "RESET"
            /\ trackNum' = NotFound
            /\ pc' = "loop"
            /\ KpReturn
            /\ UNCHANGED chanVars
       ELSE /\ UNCHANGED <<currentState, trackNum>>
            /\ \E key \in KeypadKeys \cup {NO_KEY} :
                  IF key = NO_KEY
                  THEN UNCHANGED <<pc, kpVars, chanVars>>
                  ELSE IF ~firstKeyPressed
                  THEN /\ firstKeyPressed' = TRUE
                       /\ Send("stop", NotFound, 0, 0)
                       /\ pendingKey' = key
                       /\ pc' = "kp_key"
                       /\ UNCHANGED <<phoneNumber, KeyPadCount, tempIndex>>
                  ELSE /\ HandleKey(key)
                       /\ UNCHANGED <<firstKeyPressed, tempIndex>>
    /\ UNCHANGED <<audioFiles, index, chkVars, fobVars, inputVars, obsVars, pureVars, ssVars, fobObs,
                   playFailed>>

\* GetKeyPadNumber: the first key, after sfx.stop()
KeypadKey ==
    /\ pc = "kp_key"
    /\ HandleKey(pendingKey)
    /\ UNCHANGED <<currentState, trackNum, audioFiles, firstKeyPressed, tempIndex,
                   index, chkVars, fobVars, inputVars, obsVars, pureVars, ssVars, fobObs,
                   playFailed>>

\* GetKeyPadNumber after the loop: the lookup of the number, then either the
\* stop of the not-found path or playTrack and the return to loop()
KeypadResolve ==
    /\ pc = "kp_done"
    /\ LET trackID == convertFilenameToInt(phoneNumber)
           t == Find(trackID)
       IN  /\ lastLookup' = trackID
           /\ KpReturn
           /\ IF t = NotFound
              THEN /\ Send("stop", NotFound, messageWait, 0)
                   /\ currentState' = "RESET"
                   /\ pc' = "kp_nf_play"
                   /\ UNCHANGED <<trackNum, playFailed>>
              ELSE /\ Send("play", t, sfxDelay, 0)
                   /\ pc' = "loop"
                   /\ \E soundPlayed \in BOOLEAN :
                         /\ playFailed' = ~soundPlayed
                         /\ IF soundPlayed
                            THEN trackNum' = t /\ currentState' = "CONNECTING"
                            ELSE trackNum' = NotFound /\ currentState' = "RESET"
    /\ UNCHANGED <<audioFiles, index, chkVars, fobVars, inputVars, hungUp, scanFailed,
                   pureVars, ssVars, fobObs>>

\* GetKeyPadNumber, not found: the first call-finished jingle
KeypadNfPlay ==
    /\ pc = "kp_nf_play"
    /\ lastLookup' = callFinished
    /\ Send("play", Find(callFinished), FindDelay(callFinished), sfxDelay)
    /\ pc' = "kp_nf_loop"
    /\ UNCHANGED <<currentState, trackNum, audioFiles, localVars, inputVars, hungUp,
                   scanFailed, pureVars, ssVars, fobObs, playFailed>>

\* the not-found loop ending when the jingle has stopped playing
KeypadNfLoop_EndsWithJingle ==
    /\ pc = "kp_nf_loop"
    /\ IF hookOff /\ playing
       THEN /\ Pause(5) /\ UNCHANGED lastLookup
            /\ UNCHANGED <<currentState, trackNum, pc>>
       ELSE /\ currentState' = "RESET"
            /\ trackNum' = NotFound
            /\ pc' = "loop"
            /\ UNCHANGED <<chanVars, lastLookup>>
    /\ UNCHANGED <<audioFiles, localVars, inputVars, hungUp, scanFailed, pureVars, ssVars, fobObs,
                   playFailed>>

\* GetKeyPadNumber, not found: one iteration of while (isReceiverHookOff())
KeypadNfLoop ==
    /\ pc = "kp_nf_loop"
    /\ IF hookOff
       THEN /\ IF ~playing
               THEN /\ Send("play", Find(callFinished), FindDelay(callFinished), 5)
                    /\ lastLookup' = callFinished
               ELSE Pause(5) /\ UNCHANGED lastLookup
            /\ UNCHANGED <<currentState, trackNum, pc>>
       ELSE /\ currentState' = "RESET"
            /\ trackNum' = NotFound
            /\ pc' = "loop"
            /\ UNCHANGED <<chanVars, lastLookup>>
    /\ UNCHANGED <<audioFiles, localVars, inputVars, hungUp, scanFailed, pureVars, ssVars, fobObs,
                   playFailed>>

\* the hook check of STATE_CONNECTING going straight back to idle
Connecting_ToIdle ==
    /\ pc = "loop" /\ currentState = "CONNECTING"
    /\ \E h \in LoopHead :
          /\ IF ~hookOff THEN HeadOnly(h) ELSE HeadThenWait(h)
          /\ IF ~hookOff
             THEN /\ Send("stop", NotFound, h.pause, 0)
                  /\ currentState' = "IDLE"
                  /\ hungUp' = TRUE
                  /\ UNCHANGED pc
             ELSE /\ pc' = "dp_entry"
                  /\ Pause(h.pause)
                  /\ UNCHANGED <<currentState, hungUp>>
    /\ UNCHANGED <<trackNum, audioFiles, localVars, inputVars, lastLookup, scanFailed,
                   pureVars, fobObs, playFailed>>

\* loop(), case STATE_CONNECTING: the hook check before dialingPhone
Connecting ==
    /\ pc = "loop" /\ currentState = "CONNECTING"
    /\ \E h \in LoopHead :
          /\ IF ~hookOff THEN HeadOnly(h) ELSE HeadThenWait(h)
          /\ IF ~hookOff
             THEN /\ Send("stop", NotFound, h.pause, 0)
                  /\ currentState' = "RESET"
                  /\ hungUp' = TRUE
                  /\ UNCHANGED pc
             ELSE /\ pc' = "dp_entry"
                  /\ Pause(h.pause)
                  /\ UNCHANGED <<currentState, hungUp>>
    /\ UNCHANGED <<trackNum, audioFiles, localVars, inputVars, lastLookup, scanFailed,
                   pureVars, fobObs, playFailed>>

\* dialingPhone: its own hook check, the ringing-tone lookup and the first stop
DialEntry ==
    /\ pc = "dp_entry"
    /\ IF ~hookOff
       THEN /\ Send("stop", NotFound, 0, 0)
            /\ currentState' = "RESET"
            /\ hungUp' = TRUE
            /\ pc' = "loop"
            /\ UNCHANGED <<index, lastLookup>>
       ELSE /\ index' = Find(ringingTone)
            /\ lastLookup' = ringingTone
            /\ currentState' = FindState(ringingTone, currentState)
            /\ Send("stop", NotFound, FindDelay(ringingTone), sfxDelay)
            /\ pc' = "dp_ring_on"
            /\ UNCHANGED hungUp
    /\ UNCHANGED <<trackNum, audioFiles, kpVars, chkVars, fobVars, inputVars,
                   scanFailed, pureVars, ssVars, fobObs, playFailed>>

\* the ringback step triggering the recording instead of the ringing tone
DialRingOn_PlaysRecording ==
    /\ pc = "dp_ring_on"
    /\ Send("play", trackNum, 0, RingDelay)
    /\ pc' = "dp_ring_off"
    /\ UNCHANGED <<currentState, trackNum, audioFiles, localVars, inputVars, obsVars,
                   pureVars, ssVars, fobObs, playFailed>>

\* dialingPhone: triggerSoundUART(index); delay(RingDelay)
DialRingOn ==
    /\ pc = "dp_ring_on"
    /\ Send("play", index, 0, RingDelay)
    /\ pc' = "dp_ring_off"
    /\ UNCHANGED <<currentState, trackNum, audioFiles, localVars, inputVars, obsVars,
                   pureVars, ssVars, fobObs, playFailed>>

\* dialingPhone: sfx.stop(); delay(sfxDelay)
DialRingOff ==
    /\ pc = "dp_ring_off"
    /\ Send("stop", NotFound, 0, sfxDelay)
    /\ pc' = "dp_play"
    /\ UNCHANGED <<currentState, trackNum, audioFiles, localVars, inputVars, obsVars,
                   pureVars, ssVars, fobObs, playFailed>>

\* dialingPhone: triggerSoundUART(tempNum); delay(sfxDelay)
DialPlay ==
    /\ pc = "dp_play"
    /\ Send("play", trackNum, 0, sfxDelay)
    /\ \E soundPlayed \in BOOLEAN : playFailed' = ~soundPlayed
    /\ pc' = "dp_monitor"
    /\ UNCHANGED <<currentState, trackNum, audioFiles, localVars, inputVars, obsVars,
                   pureVars, ssVars, fobObs>>

\* checkForHangupOrEnd without the hook test inside its loop
Monitor_IgnoresHook(next) ==
    /\ IF playing
       THEN UNCHANGED <<currentState, hungUp, pc, chanVars>>
       ELSE /\ pc' = next
            /\ UNCHANGED <<currentState, hungUp, chanVars>>
    /\ UNCHANGED <<trackNum, audioFiles, localVars, inputVars, lastLookup, scanFailed,
                   pureVars, ssVars, fobObs, playFailed>>
\* checkForHangupOrEnd: one iteration of while (stillPlaying()); next is the pc
\* of the caller's line after the call
Monitor(next) ==
    /\ IF playing
       THEN IF ~hookOff
            THEN /\ Send("stop", NotFound, 0, 0)
                 /\ currentState' = "RESET"
                 /\ hungUp' = TRUE
                 /\ pc' = next
            ELSE UNCHANGED <<currentState, hungUp, pc, chanVars>>
       ELSE /\ pc' = next
            /\ UNCHANGED <<currentState, hungUp, chanVars>>
    /\ UNCHANGED <<trackNum, audioFiles, localVars, inputVars, lastLookup, scanFailed,
                   pureVars, ssVars, fobObs, playFailed>>

\* dialingPhone: checkForHangupOrEnd()
DialMonitor == pc = "dp_monitor" /\ Monitor("dp_after")

\* dialingPhone: the hook check after the recording, then the ending sound
DialAfter ==
    /\ pc = "dp_after"
    /\ IF ~hookOff
       THEN /\ Send("stop", NotFound, 0, 0)
            /\ currentState' = "RESET"
            /\ hungUp' = TRUE
            /\ pc' = "loop"
            /\ index' = NotFound
            /\ UNCHANGED lastLookup
       ELSE /\ index' = Find(callFinished)
            /\ lastLookup' = callFinished
            /\ currentState' = FindState(callFinished, currentState)
            /\ Send("play", Find(callFinished), FindDelay(callFinished), 0)
            /\ pc' = "dp_jingle"
            /\ UNCHANGED hungUp
    /\ UNCHANGED <<trackNum, audioFiles, kpVars, chkVars, fobVars, inputVars,
                   scanFailed, pureVars, ssVars, fobObs, playFailed>>

\* dialingPhone: one iteration of the ending-sound loop, and the exit from it
DialJingle ==
    /\ pc = "dp_jingle"
    /\ IF hookOff
       THEN /\ IF ~playing THEN Send("play", index, 0, sfxDelay) ELSE UNCHANGED chanVars
            /\ UNCHANGED <<currentState, hungUp, pc>>
       ELSE /\ Send("stop", NotFound, sfxDelay, 0)
            /\ currentState' = "RESET"
            /\ hungUp' = TRUE
            /\ pc' = "loop"
    /\ index' = IF hookOff THEN index ELSE NotFound
    /\ UNCHANGED <<trackNum, audioFiles, kpVars, chkVars, fobVars, inputVars, lastLookup,
                   scanFailed, pureVars, ssVars, fobObs, playFailed>>

\* loop(), case STATE_INCOMING_CALL, and processIncomingCall up to its ring loop
Incoming ==
    /\ pc = "loop" /\ currentState = "INCOMING_CALL"
    /\ \E h \in LoopHead :
          /\ IF trackNum < NotFound /\ Find(ringingTone) # NotFound
             THEN HeadThenWait(h) ELSE HeadOnly(h)
          /\ IF trackNum < NotFound
             THEN /\ index' = Find(ringingTone)
                  /\ lastLookup' = ringingTone
                  /\ IF Find(ringingTone) = NotFound
                     THEN /\ Pause(h.pause + messageWait + messageWait * 3)
                          /\ currentState' = "RESET"
                          /\ UNCHANGED <<pc, ringExpired>>
                     ELSE /\ Send("play", Find(ringingTone), h.pause, 0)
                          /\ pc' = "ic_ring"
                          /\ ringExpired' = FALSE
                          /\ UNCHANGED currentState
             ELSE /\ currentState' = "IDLE"
                  /\ Pause(h.pause)
                  /\ UNCHANGED <<index, lastLookup, pc, ringExpired>>
    /\ UNCHANGED <<trackNum, audioFiles, kpVars, chkVars, fobVars, hookOff, playing,
                   btn, windowExpired, hungUp, scanFailed, pureVars, fobObs, playFailed>>

\* the ring loop without the restart of the ringing tone
IncomingRing_NoRestart ==
    /\ pc = "ic_ring"
    /\ IF ringExpired
       THEN /\ Send("stop", NotFound, sfxDelay, messageWait)
            /\ currentState' = "RESET"
            /\ pc' = "loop"
       ELSE IF hookOff
       THEN /\ Send("stop", NotFound, 0, sfxDelay)
            /\ pc' = "ic_answer"
            /\ UNCHANGED currentState
       ELSE /\ Pause(5)
            /\ UNCHANGED <<currentState, pc>>
    /\ index' = IF ringExpired THEN NotFound ELSE index
    /\ UNCHANGED <<trackNum, audioFiles, kpVars, chkVars, fobVars, inputVars, obsVars,
                   pureVars, ssVars, fobObs, playFailed>>

\* processIncomingCall: one iteration of the ring loop, or the timeout after it
IncomingRing ==
    /\ pc = "ic_ring"
    /\ IF ringExpired
       THEN /\ Send("stop", NotFound, sfxDelay, messageWait)
            /\ currentState' = "RESET"
            /\ pc' = "loop"
       ELSE IF hookOff
       THEN /\ Send("stop", NotFound, 0, sfxDelay)
            /\ pc' = "ic_answer"
            /\ UNCHANGED currentState
       ELSE /\ IF ~playing THEN Send("play", index, 0, 5) ELSE Pause(5)
            /\ UNCHANGED <<currentState, pc>>
    /\ index' = IF ringExpired THEN NotFound ELSE index
    /\ UNCHANGED <<trackNum, audioFiles, kpVars, chkVars, fobVars, inputVars, obsVars,
                   pureVars, ssVars, fobObs, playFailed>>

\* processIncomingCall, answered: triggerSoundUART(trackNum); delay(sfxDelay)
IncomingAnswer ==
    /\ pc = "ic_answer"
    /\ Send("play", trackNum, 0, sfxDelay)
    /\ \E soundPlayed \in BOOLEAN : playFailed' = ~soundPlayed
    /\ pc' = "ic_monitor"
    /\ UNCHANGED <<currentState, trackNum, audioFiles, localVars, inputVars, obsVars,
                   pureVars, ssVars, fobObs>>

\* processIncomingCall, answered: checkForHangupOrEnd()
IncomingMonitor == pc = "ic_monitor" /\ Monitor("ic_after")

\* processIncomingCall, answered: the hook check after the recording, then the
\* ending sound
IncomingAfter ==
    /\ pc = "ic_after"
    /\ IF ~hookOff
       THEN /\ currentState' = "RESET"
            /\ hungUp' = TRUE
            /\ pc' = "loop"
            /\ index' = NotFound
            /\ UNCHANGED <<lastLookup, chanVars>>
       ELSE /\ index' = Find(callFinished)
            /\ lastLookup' = callFinished
            /\ currentState' = FindState(callFinished, currentState)
            /\ Send("play", Find(callFinished), FindDelay(callFinished), 0)
            /\ pc' = "ic_wait"
            /\ UNCHANGED hungUp
    /\ UNCHANGED <<trackNum, audioFiles, kpVars, chkVars, fobVars, inputVars,
                   scanFailed, pureVars, ssVars, fobObs, playFailed>>

\* processIncomingCall, answered: while (isReceiverHookOff()) delay(50)
IncomingWait ==
    /\ pc = "ic_wait"
    /\ IF hookOff
       THEN /\ Pause(50)
            /\ UNCHANGED <<currentState, hungUp, pc>>
       ELSE /\ currentState' = "RESET"
            /\ hungUp' = TRUE
            /\ pc' = "loop"
            /\ UNCHANGED chanVars
    /\ index' = IF hookOff THEN index ELSE NotFound
    /\ UNCHANGED <<trackNum, audioFiles, kpVars, chkVars, fobVars, inputVars, lastLookup,
                   scanFailed, pureVars, ssVars, fobObs, playFailed>>

\* loop(), case STATE_RESET: sfx.stop()
Reset ==
    /\ pc = "loop" /\ currentState = "RESET"
    /\ \E h \in LoopHead :
          /\ HeadThenWait(h)
          /\ Send("stop", NotFound, h.pause, 0)
    /\ pc' = "rs_wait"
    /\ UNCHANGED <<currentState, trackNum, audioFiles, localVars, inputVars, obsVars,
                   pureVars, fobObs, playFailed>>

\* the reset case checking the handset once (if) instead of waiting (while)
ResetWait_ChecksOnce ==
    /\ pc = "rs_wait"
    /\ trackNum' = NotFound
    /\ idleExpired' = FALSE /\ idleFresh' = TRUE
    /\ playFailed' = FALSE
    /\ Send("reset", NotFound, IF hookOff THEN 10 ELSE 0, 0)
    /\ currentState' = "IDLE"
    /\ hungUp' = FALSE
    /\ lastLookup' = Invalid
    /\ btn' \in SUBSET Buttons
    /\ playing' = FALSE
    /\ pc' = "loop"
    /\ chkDb' = DbCap
    /\ UNCHANGED <<audioFiles, kpVars, index, chkLast, chkStable, fobVars, hookOff,
                   windowExpired, ringExpired, scanFailed, pureVars, screensaverActive,
                   fobObs>>

\* loop(), case STATE_RESET: the wait for the handset, then the return to idle
ResetWait ==
    /\ pc = "rs_wait"
    /\ IF hookOff
       THEN /\ Pause(10)
            /\ UNCHANGED <<currentState, trackNum, pc, hungUp, lastLookup, btn, playing,
                           idleExpired, idleFresh, playFailed>>
       ELSE /\ trackNum' = NotFound
            /\ playFailed' = FALSE
            /\ idleExpired' = FALSE /\ idleFresh' = TRUE
            /\ Send("reset", NotFound, 0, 0)
            /\ currentState' = "IDLE"
            /\ hungUp' = FALSE
            /\ lastLookup' = Invalid
            /\ btn' \in SUBSET Buttons
            /\ playing' = FALSE
            /\ pc' = "loop"
    /\ chkDb' = DbCap
    /\ UNCHANGED <<audioFiles, kpVars, index, chkLast, chkStable, fobVars, hookOff,
                   windowExpired, ringExpired, scanFailed, pureVars, screensaverActive,
                   fobObs>>

---------------------------------------------------------------------------
(* The inputs *)

\* the handset is lifted or replaced
HookChange ==
    /\ pc \notin {"setup", "halt"}
    /\ hookOff' = ~hookOff
    /\ UNCHANGED <<progVars, localVars, playing, btn, windowExpired, ringExpired,
                   chanVars, obsVars, pureVars, ssVars, fobObs, playFailed>>

\* the sound module's ACT line changes
ActChange ==
    /\ pc \in {"kp_nf_loop", "dp_monitor", "dp_jingle", "ic_ring", "ic_monitor"}
    /\ playing' = ~playing
    /\ UNCHANGED <<progVars, localVars, hookOff, btn, windowExpired, ringExpired,
                   chanVars, obsVars, pureVars, ssVars, fobObs, playFailed>>

\* a key-fob button is pressed or released
ButtonChange ==
    /\ pc \in {"loop", "fob_release", "fob_window"} /\ currentState = "IDLE"
    /\ \E b \in Buttons :
          /\ btn' = IF b \in btn THEN btn \ {b} ELSE btn \cup {b}
          /\ lowFor' = IF b = chkLast THEN 0 ELSE lowFor
          /\ IF b = solo
             THEN solo' = -1 /\ seenFor' = 0 /\ polledStable' = FALSE
             ELSE UNCHANGED <<solo, seenFor, polledStable>>
    /\ UNCHANGED <<progVars, localVars, hookOff, playing, windowExpired, ringExpired,
                   chanVars, obsVars, pureVars, ssVars, playFailed>>

\* one millisecond passes while the key-fob readers poll
Tick ==
    /\ pc \in {"loop", "fob_window"} /\ currentState = "IDLE"
    /\ \/ chkDb < DbCap \/ fobDb < DbCap
       \/ solo # -1 /\ seenFor < DbCap
       \/ chkLast \in btn /\ lowFor < debounceDelay
    /\ chkDb' = Min(chkDb + 1, DbCap)
    /\ fobDb' = Min(fobDb + 1, DbCap)
    /\ lowFor' = IF chkLast \in btn THEN Min(lowFor + 1, debounceDelay) ELSE 0
    /\ seenFor' = IF solo # -1 THEN Min(seenFor + 1, DbCap) ELSE 0
    /\ UNCHANGED <<progVars, kpVars, index, chkLast, chkStable, firstButtonIndex,
                   fobLast, inputVars, chanVars, obsVars, pureVars, ssVars, solo,
                   polledStable, playFailed>>

\* the 5-second window for the second press runs out
WindowExpire ==
    /\ pc = "fob_window" /\ ~windowExpired
    /\ windowExpired' = TRUE
    /\ UNCHANGED <<progVars, localVars, hookOff, playing, btn, ringExpired, chanVars,
                   obsVars, pureVars, ssVars, fobObs, playFailed>>

\* ringTimeout runs out while the phone rings
RingExpire ==
    /\ pc = "ic_ring" /\ ~ringExpired
    /\ ringExpired' = TRUE
    /\ UNCHANGED <<progVars, localVars, hookOff, playing, btn, windowExpired, chanVars,
                   obsVars, pureVars, ssVars, fobObs, playFailed>>

\* screensaverTimeout has passed since lastActivityTime; loop() reads the timer
\* only at its head
IdleExpire ==
    /\ pc = "loop" /\ ~idleExpired /\ ~idleFresh
    /\ idleExpired' = TRUE
    /\ UNCHANGED <<progVars, localVars, inputVars, chanVars, obsVars, pureVars,
                   screensaverActive, idleFresh, fobObs, playFailed>>

Program ==
    \/ Setup \/ IdlePoll \/ FobRelease \/ FobPoll \/ DialTone
    \/ KeypadBegin \/ KeypadPoll \/ KeypadKey \/ KeypadResolve
    \/ KeypadNfPlay \/ KeypadNfLoop
    \/ Connecting \/ DialEntry \/ DialRingOn \/ DialRingOff \/ DialPlay
    \/ DialMonitor \/ DialAfter \/ DialJingle
    \/ Incoming \/ IncomingRing \/ IncomingAnswer \/ IncomingMonitor
    \/ IncomingAfter \/ IncomingWait
    \/ Reset \/ ResetWait

Environment ==
    \/ HookChange \/ ActChange \/ ButtonChange \/ Tick \/ WindowExpire \/ RingExpire
    \/ IdleExpire

Next == Program \/ Environment

\* The machine for the progress properties: booted on-hook with the full card,
\* and the idle timer not running
InitLive == Init /\ listing = FullListing /\ ~hookOff
EnvironmentLive ==
    \/ HookChange \/ ActChange \/ ButtonChange \/ Tick \/ WindowExpire \/ RingExpire
NextLive == Program \/ EnvironmentLive

\* the processor never stops: loop() and the function it is in always take
\* their next step.  KeypadResolve is enabled exactly at "kp_done" and every
\* step of it leaves that position, so weak fairness on it is that the
\* position is always left again
Fairness ==
    /\ WF_vars(Setup)
    /\ WF_vars(IdlePoll)
    /\ WF_vars(FobRelease)
    /\ WF_vars(FobPoll)
    /\ WF_vars(DialTone)
    /\ WF_vars(KeypadBegin)
    /\ WF_vars(KeypadPoll)
    /\ WF_vars(KeypadKey)
    /\ WF_vars(KeypadNfPlay)
    /\ WF_vars(KeypadNfLoop)
    /\ WF_vars(Connecting)
    /\ WF_vars(DialEntry)
    /\ WF_vars(DialRingOn)
    /\ WF_vars(DialRingOff)
    /\ WF_vars(DialPlay)
    /\ WF_vars(DialMonitor)
    /\ WF_vars(DialAfter)
    /\ WF_vars(DialJingle)
    /\ WF_vars(Incoming)
    /\ WF_vars(IncomingRing)
    /\ WF_vars(IncomingAnswer)
    /\ WF_vars(IncomingMonitor)
    /\ WF_vars(IncomingAfter)
    /\ WF_vars(IncomingWait)
    /\ WF_vars(Reset)
    /\ WF_vars(ResetWait)
    /\ []<>(pc # "kp_done")
SpecLive == InitLive /\ [][NextLive]_vars /\ Fairness
Spec == Init /\ [][Next]_vars

---------------------------------------------------------------------------
(* SpecConvert: convertFilenameToInt on every filename of at most          *)
(* MaxNameLen characters over Alphabet                                     *)

Alphabet == {"0", "1", "9", ".", "X"}
FileNames == UNION {[1..n -> Alphabet] : n \in 0..MaxNameLen}

InitConvert ==
    /\ MachineInit
    /\ hookOff = FALSE
    /\ pc = "convert"
    /\ fname \in FileNames
    /\ listing = <<>> /\ result = 0 /\ queried = 0

Convert ==
    /\ pc = "convert"
    /\ result' = convertFilenameToInt(fname)
    /\ pc' = "converted"
    /\ UNCHANGED <<currentState, trackNum, audioFiles, localVars, inputVars,
                   chanVars, obsVars, listing, fname, queried, ssVars, fobObs, playFailed>>

NextConvert == Convert
SpecConvert == InitConvert /\ [][NextConvert]_vars

---------------------------------------------------------------------------
(* SpecScan: the directory built from a boot-time listing, then looked up  *)

Pool == <<N_1WAV, N_3OGG, N_11OGG, N_12345OGG, N_XOGG, N_03WAV, N_T11OGG>>

\* n filenames taken from Pool with stride k from offset d
ListingOf(n, k, d) == [i \in 1..n |-> Pool[(((i - 1) * k + d) % Len(Pool)) + 1]]
Listings == {ListingOf(n, k, d) : n \in 0..MaxFiles, k \in 1..3, d \in 0..(Len(Pool) - 1)}
LookupIds == {0, 1, 3, 11, 99, 12345}

InitScan ==
    /\ MachineInit
    /\ hookOff = FALSE
    /\ pc = "scan"
    /\ listing \in Listings
    /\ fname = <<>> /\ result = 0 /\ queried = 0

\* setup(): scanAudioFXStorageNew()
Build ==
    /\ pc = "scan"
    /\ audioFiles' = scanAudioFXStorageNew(listing, audioFiles)
    /\ scanFailed' = (Len(listing) = 0)
    /\ currentState' = IF Len(listing) = 0 THEN "RESET" ELSE currentState
    /\ pc' = "scanned"
    /\ UNCHANGED <<trackNum, localVars, inputVars, chanVars, lastLookup, hungUp,
                   pureVars, ssVars, fobObs, playFailed>>

\* findTrackNumberByFilename(id) on the table built
Lookup ==
    /\ pc \in {"scanned", "looked"}
    /\ \E id \in LookupIds :
          /\ result' = findTrackNumberByFilename(audioFiles, id)
          /\ queried' = id
          /\ lastLookup' = id
          /\ currentState' = IF findTrackNumberByFilename(audioFiles, id) = NotFound
                             THEN "RESET" ELSE currentState
    /\ pc' = "looked"
    /\ UNCHANGED <<trackNum, audioFiles, localVars, inputVars, chanVars, hungUp,
                   scanFailed, listing, fname, ssVars, fobObs, playFailed>>

NextScan == Build \/ Lookup
SpecScan == InitScan /\ [][NextScan]_vars

---------------------------------------------------------------------------
(* Claims about id extraction *)

\* the first run of decimal digits of a filename, described position by position
FirstDigit(f) == CHOOSE i \in 1..Len(f) : isdigit(f[i]) /\ \A j \in 1..(i - 1) : ~isdigit(f[j])
HasDigit(f) == \E i \in 1..Len(f) : isdigit(f[i])
RunEnd(f) ==
    CHOOSE e \in FirstDigit(f)..Len(f) :
        /\ \A j \in FirstDigit(f)..e : isdigit(f[j])
        /\ e = Len(f) \/ ~isdigit(f[e + 1])
RunLen(f) == IF HasDigit(f) THEN RunEnd(f) - FirstDigit(f) + 1 ELSE 0
RECURSIVE Pow10(_)
Pow10(n) == IF n = 0 THEN 1 ELSE 10 * Pow10(n - 1)
RECURSIVE SumOver(_, _)
SumOver(f, S) ==
    IF S = {} THEN 0
    ELSE LET i == CHOOSE x \in S : TRUE
         IN  DigitVal(f[i]) * Pow10(RunEnd(f) - i) + SumOver(f, S \ {i})
RunValue(f) == SumOver(f, FirstDigit(f)..RunEnd(f))

\* C5: a filename whose first digit run has 1 to 5 digits converts to exactly the
\* numeric value of that run, a value in 0..99999
C5_ExtractsRunValue ==
    (pc = "converted" /\ RunLen(fname) \in 1..MaxDigits)
        => (result = RunValue(fname) /\ result \in 0..MaxId)

\* a filename with leading zeros and a non-digit prefix has been converted
C5_Witness ==
    /\ pc = "converted"
    /\ fname = <<"X", "0", "9", "1", ".", "X">>
    /\ result = 91

\* C6: every filename without a digit run of 1 to 5 digits (no digit at all, or a
\* first run of more than 5 digits) converts to invalid (-1)
C6_OtherwiseInvalid ==
    (pc = "converted" /\ RunLen(fname) \notin 1..MaxDigits) => result = Invalid

---------------------------------------------------------------------------
(* Claims about the directory *)

\* the listing positions (1-based) whose filename has a valid id
ValidPositions == {i \in 1..Len(listing) : convertFilenameToInt(listing[i]) # Invalid}
PositionsOf(id) == {i \in 1..Len(listing) : convertFilenameToInt(listing[i]) = id}
FirstPositionOf(id) == CHOOSE i \in PositionsOf(id) : \A j \in PositionsOf(id) : i <= j

\* C7: when the listing fits the capacity, lookup(id) is the slot (0-based listing
\* position) of the first listed filename with that id, and 255 when there is none
C7_LookupFirstListed ==
    (pc = "looked" /\ Cardinality(ValidPositions) <= MAX_TRACKS)
        => /\ result = IF PositionsOf(queried) = {} THEN NotFound
                       ELSE FirstPositionOf(queried) - 1
           /\ (listing = <<N_1WAV, N_3OGG, N_11OGG, N_12345OGG>>
                 => result = CASE queried = 1 -> 0
                               [] queried = 3 -> 1
                               [] queried = 11 -> 2
                               [] queried = 12345 -> 3
                               [] OTHER -> NotFound)

\* an id listed twice, behind a skipped invalid filename, resolved to its first slot
C7_Witness ==
    /\ pc = "looked"
    /\ Cardinality(ValidPositions) <= MAX_TRACKS
    /\ Cardinality(PositionsOf(queried)) >= 2
    /\ \E i \in 1..Len(listing) : i < FirstPositionOf(queried) /\ i \notin ValidPositions
    /\ result = FirstPositionOf(queried) - 1

\* C8: the table never holds more than MAX_TRACKS entries; its entries are the
\* first MAX_TRACKS valid filenames in listing order, and dropping the rest raises
\* no error state
C8_CapacityKeepsFirst ==
    pc = "scanned" =>
        /\ Len(audioFiles) = Min(Cardinality(ValidPositions), MAX_TRACKS)
        /\ Len(audioFiles) <= MAX_TRACKS
        /\ \A j \in 1..Len(audioFiles) :
              LET p == audioFiles[j].trackNum + 1
              IN  /\ p \in ValidPositions
                  /\ Cardinality({v \in ValidPositions : v < p}) = j - 1
                  /\ audioFiles[j].fileID = convertFilenameToInt(listing[p])
        /\ (Len(listing) > 0 => currentState = "IDLE")

\* a listing with more valid filenames than the table holds has been scanned
C8_Witness ==
    /\ pc = "scanned"
    /\ Cardinality(ValidPositions) > MAX_TRACKS
    /\ Len(audioFiles) = MAX_TRACKS

---------------------------------------------------------------------------
(* Claims about the state machine *)

\* C1: whenever a stop command is sent, at least sfxDelay of delay passes before
\* the next play command is sent
C1_StopThenPlaySpaced ==
    (cmd.op = "play" /\ prevOp = "stop") => cmdSpaced

\* C2: after any play or stop command, at least sfxDelay of delay passes before
\* the next command of any kind (play, stop or reset) is sent
C2_CommandsSpaced ==
    (prevOp \in {"play", "stop"} /\ cmd.op \in {"play", "stop", "reset"}) => cmdSpaced

\* the composite ids a two-press remote code can form
FobIds == {10 * x + y : x \in 1..numButtons, y \in 1..numButtons}

\* C3: when a two-press remote code has been completed in Idle and its composite
\* id is not in the directory, the call phase is still Idle (not Resetting)
C3_FailedLookupStaysIdle ==
    (pc = "loop" /\ lastLookup \in FobIds /\ trackNum = NotFound)
        => currentState = "IDLE"

\* C4: a step that completes the second-press window inside the window looks up
\* exactly 10*digit(X)+digit(Y), X the first button and Y a button that reads
\* pressed and has been seen pressed for longer than the debounce interval; when
\* that id is listed the phase goes Idle -> IncomingRing with the slot of that id
\* selected
C4_CompositeLookup ==
    [][(pc = "fob_window" /\ pc' = "loop" /\ ~windowExpired)
        => \E y \in btn :
              LET id == 10 * (firstButtonIndex + 1) + (y + 1)
              IN  /\ fobLast = y /\ fobDb > debounceDelay
                  /\ lastLookup' = id
                  /\ PositionsOf(id) # {}
                        => /\ currentState = "IDLE"
                           /\ currentState' = "INCOMING_CALL"
                           /\ trackNum' = FirstPositionOf(id) - 1
                  /\ PositionsOf(id) = {} => currentState' # "INCOMING_CALL"]_vars

\* button D then button B resolved to 42.OGG, slot 5 of the full listing
C4_Witness ==
    /\ listing = FullListing
    /\ pc = "loop" /\ currentState = "INCOMING_CALL"
    /\ lastLookup = 42
    /\ trackNum = 5

\* C9: after the sound module reported zero files at boot, the machine never
\* enters DialTone, DigitEntry, Connecting or IncomingRing and never sends a play
C9_NoFilesHalts ==
    scanFailed =>
        /\ currentState \notin {"DIAL_TONE", "KEYPAD_ENTRY", "CONNECTING", "INCOMING_CALL"}
        /\ cmd.op # "play"

\* C10: once a live call (Connecting, or an answered incoming call) has sampled
\* the hook on-hook, no further play command is sent before the reset completes
C10_NoPlayAfterHangup ==
    [][hungUp => ~(cmdSeq' # cmdSeq /\ cmd'.op = "play")]_vars

\* a step that sends a play command
PlayStep == cmdSeq' # cmdSeq /\ cmd'.op = "play"
\* the positions inside dialingPhone
DialPcs == {"dp_entry", "dp_ring_on", "dp_ring_off", "dp_play", "dp_monitor", "dp_after",
            "dp_jingle"}

\* C11: in an outbound call no play command for the resolved recording is sent
\* before the ringback burst of that call has been triggered and stopped: every
\* play sent from digit entry on, other than the key-press, ringback and
\* call-finished sounds, is sent after the ringback play and its stop
C11_RecordingAfterRingback ==
    [][(PlayStep /\ pc \in {"kp_done"} \cup DialPcs
          /\ cmd'.track \notin {Find(ringingTone), Find(callFinished)})
        => (pc = "dp_play" /\ cmd.op = "stop" /\ prevOp = "play")]_vars

\* C11 as amended: inside dialingPhone the commands are the ringback play (sent
\* after a stop), its stop, then the play of the resolved recording, and no other
\* play of the recording is sent there; the one earlier play of the recording is
\* the playTrack at the end of GetKeyPadNumber
C11_OrderInsideConnecting ==
    [][/\ (pc = "dp_ring_on" /\ pc' # pc)
            => (cmd.op = "stop" /\ PlayStep /\ cmd'.track = Find(ringingTone)
                /\ pc' = "dp_ring_off")
       /\ (pc = "dp_ring_off" /\ pc' # pc)
            => (cmd = [op |-> "play", track |-> Find(ringingTone)]
                /\ cmd'.op = "stop" /\ pc' = "dp_play")
       /\ (pc = "dp_play" /\ pc' # pc)
            => (cmd.op = "stop" /\ prevOp = "play" /\ PlayStep
                /\ cmd'.track = trackNum /\ trackNum # NotFound)
       /\ (PlayStep /\ pc \in DialPcs /\ cmd'.track = trackNum) => pc = "dp_play"
       /\ (PlayStep /\ pc = "kp_done")
            => (cmd'.track = Find(convertFilenameToInt(phoneNumber))
                /\ cmd'.track # NotFound /\ pc' = "loop")]_vars

\* the recording of 11111 has been triggered in dialingPhone, after the ringback
C11_Witness ==
    /\ listing = FullListing
    /\ pc = "dp_monitor" /\ currentState = "CONNECTING"
    /\ cmd = [op |-> "play", track |-> 6] /\ prevOp = "stop"

---------------------------------------------------------------------------
(* Claims about digit entry *)

Typed11111 == <<"1", "1", "1", "1", "1">>
\* a step of GetKeyPadNumber that handles a key
KeyStep ==
    \/ pc = "kp_loop" /\ pc' \in {"kp_loop", "kp_done"} /\ kpVars' # kpVars
    \/ pc = "kp_key" /\ pc' # pc
\* what resolving the number 11111 leads to, read off the listing
Outcome11111 ==
    /\ lastLookup' = 11111
    /\ IF PositionsOf(11111) = {}
       THEN pc' = "kp_nf_play" /\ currentState' = "RESET"
       ELSE /\ pc' = "loop"
            /\ \/ currentState' = "CONNECTING" /\ trackNum' = FirstPositionOf(11111) - 1
               \/ currentState' = "RESET" /\ trackNum' = NotFound

\* C12: '*' completes entry after 0 to 4 digits with the buffer 11111, and the
\* completed entry resolves exactly as the buffer 11111 typed digit by digit does
C12_ShortcutAsTyped ==
    [][/\ (KeyStep /\ pendingKey' = "*")
            => (KeyPadCount \in 0..4 /\ pc' = "kp_done"
                /\ KeyPadCount' = MaxDigits /\ phoneNumber' = Typed11111)
       /\ (pc = "kp_done" /\ pc' # pc /\ pendingKey = "*")
            => (phoneNumber = Typed11111 /\ Outcome11111)
       /\ (pc = "kp_done" /\ pc' # pc /\ pendingKey = "1" /\ phoneNumber = Typed11111)
            => Outcome11111]_vars

\* '*' has completed the entry and the handset is still off-hook
C12_Witness ==
    /\ pc = "kp_done" /\ pendingKey = "*" /\ hookOff
    /\ listing = FullListing

\* the buffer holds KeyPadCount digits followed by blanks
BufferShape ==
    pc \in {"kp_loop", "kp_key"}
        => /\ KeyPadCount \in 0..(MaxDigits - 1)
           /\ \A i \in 1..MaxDigits :
                 IF i <= KeyPadCount THEN isdigit(phoneNumber[i]) ELSE phoneNumber[i] = " "

\* C13: without '*', a digit is appended at the count, '#' empties the buffer,
\* entry completes exactly at the fifth digit since the last '#', no lookup is
\* made before, and the number looked up is the five digits of the buffer in order
C13_LookupAtFifthDigit ==
    /\ []BufferShape
    /\ [][/\ (KeyStep /\ isdigit(pendingKey'))
               => (KeyPadCount' = KeyPadCount + 1
                   /\ phoneNumber' = [phoneNumber EXCEPT ![KeyPadCount + 1] = pendingKey']
                   /\ (pc' = "kp_done") = (KeyPadCount' = MaxDigits))
          /\ (KeyStep /\ pendingKey' = "#")
               => (KeyPadCount' = 0 /\ phoneNumber' = Blank /\ pc' = "kp_loop")
          /\ (pc \in {"kp_loop", "kp_key"}) => (lastLookup' = lastLookup)
          /\ (pc = "kp_done" /\ pc' # pc /\ pendingKey # "*")
               => ((\A i \in 1..MaxDigits : isdigit(phoneNumber[i]))
                   /\ lastLookup' = RunValue(phoneNumber))]_vars

\* the number 12121, typed in full, has been looked up and was not listed
C13_Witness ==
    /\ pc = "kp_nf_play"
    /\ lastLookup = 12121

\* C14: a poll of digit entry that samples the hook on-hook ends the entry at
\* once: the phase is Resetting, nothing is looked up and no command is sent by
\* that step; and Resetting sends no play and is left only for Idle
C14_HangupAbortsEntry ==
    [][/\ (pc = "kp_loop" /\ ~hookOff /\ hookOff' = hookOff)
            => (KeyPadCount \in 0..(MaxDigits - 1)
                /\ pc' = "loop" /\ currentState' = "RESET" /\ trackNum' = NotFound
                /\ lastLookup' = lastLookup /\ cmd' = cmd /\ cmdSeq' = cmdSeq)
       /\ (currentState = "RESET" /\ pc \in {"loop", "rs_wait"})
            => (~PlayStep /\ currentState' \in {"RESET", "IDLE"}
                /\ lastLookup' \in {lastLookup, Invalid})]_vars

\* entry was aborted on-hook after the key-press sound of a digit: Resetting,
\* with the key-press lookup still the last one made
C14_Witness ==
    /\ listing = FullListing
    /\ pc = "loop" /\ currentState = "RESET" /\ ~hookOff
    /\ lastLookup = buttonPress
    /\ cmd = [op |-> "play", track |-> 1]

\* C15: a completed number that is not listed never leads to Connecting: the
\* call-finished jingle is triggered, then triggered again by every pass of the
\* loop that finds the handset off-hook and playback stopped; the loop is left
\* only by a pass that reads the hook on-hook, and then for Resetting
C15_NotFoundJingleLoop ==
    [][/\ (pc = "kp_done" /\ pc' # pc
              /\ PositionsOf(convertFilenameToInt(phoneNumber)) = {})
            => (pc' = "kp_nf_play" /\ cmd'.op = "stop")
       /\ (pc = "kp_nf_play" /\ pc' # pc)
            => (pc' = "kp_nf_loop" /\ PlayStep /\ cmd'.track = Find(callFinished))
       /\ (pc = "kp_nf_loop" /\ hookOff' = hookOff /\ playing' = playing)
            => IF hookOff
               THEN /\ pc' = "kp_nf_loop"
                    /\ IF playing THEN cmd' = cmd /\ cmdSeq' = cmdSeq
                       ELSE PlayStep /\ cmd'.track = Find(callFinished)
               ELSE pc' = "loop" /\ currentState' = "RESET" /\ trackNum' = NotFound
                    /\ cmd' = cmd /\ cmdSeq' = cmdSeq
       /\ (pc \in {"kp_nf_play", "kp_nf_loop"}) => (currentState' # "CONNECTING")]_vars

\* the jingle (4.OGG, slot 3) has been triggered again in the not-found loop
\* for the unlisted number 12121
C15_Witness ==
    /\ listing = FullListing
    /\ pc = "kp_nf_loop" /\ hookOff
    /\ cmd = [op |-> "play", track |-> 3] /\ prevOp = "play"

---------------------------------------------------------------------------
(* Claims about incoming calls *)

\* C16: while the phone rings on-hook the ringing tone is triggered again by
\* every pass that finds playback stopped; the pass that finds the ring timeout
\* expired sends stop and leaves for Resetting, which is left only for Idle; the
\* selected recording is played only after a pass of the ring loop has read the
\* hook off-hook before the timeout
C16_RingTimeout ==
    [][/\ (pc = "ic_ring" /\ hookOff' = hookOff /\ playing' = playing
              /\ ringExpired' = ringExpired)
            => IF ringExpired
               THEN cmdSeq' # cmdSeq /\ cmd'.op = "stop" /\ pc' = "loop"
                    /\ currentState' = "RESET"
               ELSE hookOff
                    \/ /\ pc' = "ic_ring"
                       /\ IF playing THEN cmd' = cmd /\ cmdSeq' = cmdSeq
                          ELSE PlayStep /\ cmd'.track = Find(ringingTone)
       /\ (PlayStep /\ cmd'.track = trackNum
              /\ (pc \in {"ic_ring", "ic_answer", "rs_wait"}
                  \/ (pc = "loop" /\ currentState \in {"INCOMING_CALL", "RESET"})))
            => pc = "ic_answer"
       /\ (pc' = "ic_answer" /\ pc # "ic_answer")
            => (pc = "ic_ring" /\ hookOff /\ ~ringExpired)
       /\ (currentState = "RESET" /\ pc \in {"loop", "rs_wait"} /\ ringExpired)
            => currentState' \in {"RESET", "IDLE"}]_vars

\* an unanswered call has timed out and the machine is back in Idle
C16_Witness ==
    /\ pc = "loop" /\ currentState = "IDLE"
    /\ ringExpired /\ ~hookOff
    /\ trackNum = NotFound

\* C17: after an answered incoming call's recording, every pass of the wait for
\* the handset that finds it off-hook and playback stopped triggers the
\* call-finished jingle again, as the outbound tail does
C17_IncomingTailAsOutbound ==
    [][/\ (pc = "ic_wait" /\ hookOff /\ ~playing /\ hookOff' = hookOff)
            => (PlayStep /\ cmd'.track = Find(callFinished))
       /\ (pc = "dp_jingle" /\ hookOff /\ ~playing /\ hookOff' = hookOff
              /\ playing' = playing)
            => (PlayStep /\ cmd'.track = Find(callFinished))]_vars

\* C18: a press of one button that CheckForIncomingCall has read low, alone, in a
\* call made more than debounceDelay ms after the call that first read it ends
\* with its one event returned (the reader is not called between the event and the
\* release, so there is no second one), and a call returns an event only for a
\* button whose pin has been low for debounceDelay ms
C18_ExactlyOneEvent ==
    [][\A b \in Buttons :
          /\ (b \in btn /\ btn' = btn \ {b} /\ pc' = pc /\ currentState' = currentState
                 /\ solo = b /\ polledStable)
               => (pc = "fob_release" /\ firstButtonIndex = b)
          /\ (pc = "loop" /\ pc' = "fob_release" /\ firstButtonIndex' = b)
               => (b \in btn /\ chkLast' = b /\ lowFor >= debounceDelay)]_vars

---------------------------------------------------------------------------
(* Claims about the phases *)

\* the case of loop() that is running: the phase at the start of the iteration
CaseOf ==
    CASE pc = "loop" -> currentState
      [] pc \in {"fob_release", "fob_window"} -> "IDLE"
      [] pc \in {"kp_loop", "kp_key", "kp_done", "kp_nf_play", "kp_nf_loop"} -> "KEYPAD_ENTRY"
      [] pc \in DialPcs -> "CONNECTING"
      [] pc \in {"ic_ring", "ic_answer", "ic_monitor", "ic_after", "ic_wait"} -> "INCOMING_CALL"
      [] pc = "rs_wait" -> "RESET"
      [] OTHER -> "BOOT"
PhaseEdges ==
    {<<"IDLE", "DIAL_TONE">>, <<"IDLE", "INCOMING_CALL">>, <<"DIAL_TONE", "KEYPAD_ENTRY">>,
     <<"KEYPAD_ENTRY", "CONNECTING">>, <<"RESET", "IDLE">>}

\* C19: between the start and the end of an iteration of loop() the phase stays
\* as it is, follows one of PhaseEdges, or becomes Resetting
C19_PhaseEdges ==
    [][(pc' = "loop" /\ CaseOf # "BOOT")
        => \/ currentState' = CaseOf
           \/ currentState' = "RESET"
           \/ <<CaseOf, currentState'>> \in PhaseEdges]_vars

\* Connecting has been entered from digit entry although the failed lookup of
\* the key-press sound had set currentState to STATE_RESET in between
C19_Witness ==
    /\ listing = BareListing
    /\ pc = "loop" /\ currentState = "CONNECTING"
    /\ trackNum = 1

\* C20: the reset case sends stop, stays in Resetting on every pass that reads
\* the handset off-hook, and goes to Idle only on a pass that reads it on-hook,
\* then with the selected track cleared to 255 and the idle timer re-armed
C20_ResetCompletes ==
    [][/\ (pc = "loop" /\ currentState = "RESET" /\ pc' # pc)
            => (cmdSeq' # cmdSeq /\ cmd'.op = "stop" /\ pc' = "rs_wait"
                /\ currentState' = "RESET")
       /\ (pc = "rs_wait" /\ hookOff /\ hookOff' = hookOff)
            => (pc' = "rs_wait" /\ currentState' = "RESET")
       /\ (currentState = "RESET" /\ currentState' = "IDLE")
            => (pc = "rs_wait" /\ ~hookOff /\ cmd.op = "stop"
                /\ trackNum' = NotFound /\ ~idleExpired')]_vars

\* a reset has completed and re-armed an idle timer that had expired: the
\* screensaver it had started is still on
C20_Witness ==
    /\ pc = "loop" /\ currentState = "IDLE"
    /\ cmd.op = "reset" /\ prevOp = "stop"
    /\ trackNum = NotFound
    /\ screensaverActive /\ ~idleExpired

---------------------------------------------------------------------------
(* Claims about the dial tone, the screensaver and the selected track *)

LivePhases == {"DIAL_TONE", "KEYPAD_ENTRY", "CONNECTING", "INCOMING_CALL"}

\* C23: at the start of every iteration of loop() in DialTone, DigitEntry,
\* Connecting or IncomingRing the screensaver is not active, and no step taken in
\* one of those phases activates it
C23_ScreensaverSuspended ==
    /\ []((pc = "loop" /\ currentState \in LivePhases) => ~screensaverActive)
    /\ [][(currentState \in LivePhases /\ ~screensaverActive)
             => ~screensaverActive']_vars



\* C27: at the start of every iteration of loop() trackNum is 255 in Idle,
\* DialTone and DigitEntry, and in Connecting and IncomingRing it is the slot of
\* an entry of the directory; the incoming-call case never goes back to Idle
C27_TrackMatchesPhase ==
    /\ [](pc = "loop" =>
            /\ currentState \in {"IDLE", "DIAL_TONE", "KEYPAD_ENTRY"}
                 => trackNum = NotFound
            /\ currentState \in {"CONNECTING", "INCOMING_CALL"}
                 => /\ trackNum # NotFound
                    /\ \E i \in 1..Len(audioFiles) : audioFiles[i].trackNum = trackNum)
    /\ [][~(currentState = "INCOMING_CALL" /\ currentState' = "IDLE")]_vars

\* an incoming call is about to ring for a remote code that resolved
C27_Witness ==
    /\ pc = "loop" /\ currentState = "INCOMING_CALL"
    /\ trackNum # NotFound /\ trackNum = Find(lastLookup)


---------------------------------------------------------------------------
(* Claims about a play command that is not acknowledged *)

\* C26: when sfx.playTrack returns false for the resolved recording, at the end
\* of digit entry the phase becomes Resetting; the machine does not go back to
\* Idle before the call-finished jingle has been looked up and triggered, unless
\* the call had sampled the handset on-hook; and in the wait for the handset that
\* follows the jingle, every pass that finds it off-hook and playback stopped
\* triggers the jingle again
C26_TriggerFailureAsMissing ==
    [][/\ (pc = "kp_done" /\ playFailed') => currentState' = "RESET"
       /\ (playFailed /\ ~hungUp /\ currentState = "RESET" /\ currentState' = "IDLE")
            => lastLookup = callFinished
       /\ (playFailed /\ pc \in {"kp_nf_loop", "dp_jingle", "ic_wait"}
              /\ hookOff /\ ~playing /\ hookOff' = hookOff /\ playing' = playing)
            => (PlayStep /\ cmd'.track = Find(callFinished))]_vars


---------------------------------------------------------------------------
(* Claims about progress, under SpecLive *)

\* a call the user is on: digit entry, connecting, or an answered incoming call
LiveCall ==
    \/ CaseOf \in {"KEYPAD_ENTRY", "CONNECTING"}
    \/ pc \in {"ic_answer", "ic_monitor", "ic_after", "ic_wait"}
AtIdle == pc = "loop" /\ currentState = "IDLE"

C24_ReleaseWaitBounded ==
    (pc = "fob_release") ~> (pc # "fob_release" \/ firstButtonIndex \notin btn)

\* the reader is polling with two buttons held low
TwoHeld == Cardinality(btn) >= 2
\* a stable second press has been reported by the window of ProcessIncomingKeyFob
SecondReported == pc = "loop" /\ currentState \in {"INCOMING_CALL", "RESET"}

\* C25: while two key-fob buttons are held low together, the reader eventually
\* reports a stable press for one of them, in the first-press reader of Idle
\* and, while it is open, in the second-press window
C25_TwoHeldReported ==
    /\ (pc = "loop" /\ currentState = "IDLE" /\ ~hookOff /\ TwoHeld)
          ~> (pc = "fob_release" \/ ~TwoHeld \/ hookOff)
    /\ (pc = "fob_window" /\ TwoHeld)
          ~> (SecondReported \/ ~TwoHeld \/ windowExpired)

=============================================================================
